---- MODULE Spec2Model ----
(***************************************************************************)
(* Model of the URL shortener of src/main.c: one heap of Node records      *)
(* linked into two chained hash tables (short_table by short code,         *)
(* long_table by long URL), and the short-code generator driven by the     *)
(* counter global_id.                                                      *)
(*                                                                         *)
(* Strings are sequences of byte values (a C string without its NUL).      *)
(* Pointers are heap addresses 1..MaxNodes, NULL is 0.  A uint64_t is a    *)
(* tuple of four 16-bit limbs, least significant first: the counter, the   *)
(* modulus 2^40 and the 64-bit word of the source are kept at their        *)
(* widths.                                                                 *)
(*                                                                         *)
(* Specifications.  Spec: the commands of main carried out in any order    *)
(* on the program as constructed (global_id = 1).  WrapSpec starts from    *)
(* that state or from states the program reaches as global_id passes       *)
(* MODULUS, where candidates meet live codes and where codes that share a  *)
(* short_table bucket have been issued; FairWrapSpec adds that the loop of *)
(* generate_short_url keeps running.  StoreSpec adds remove_by_long, which *)
(* no command of main calls, to the operations of WrapSpec.  CliSpec: main *)
(* reading its commands from stdin through the LONG_URL_MAX-byte buffer.   *)
(* PureSpec: scramble_id and id_to_base62 applied on their own.            *)
(***************************************************************************)
EXTENDS Integers, Sequences, FiniteSets, TLC

(* ------------------------------ bounds -------------------------------- *)

\* Number of distinct long URLs the caller may submit.
NumUrls == 1

\* Cap on the counter: a behaviour starts with the low limb of global_id at
\* 1, and a call of generate_short_url for a new URL is followed while it
\* returns with that limb at most MaxId.
MaxId == 4

\* Number of lines typed at the prompt of main.
MaxLines == 2

\* The values 0..MaxPlain are among the arguments scramble_id and
\* id_to_base62 are applied to on their own.
MaxPlain == 120

(* ------------------------- program constants -------------------------- *)

LONG_URL_MAX == 1024

SHORT_CODE_LEN == 7

HASH_SIZE == 1009

PRIME_MULTIPLIER == 36779219

\* One limb of a 64-bit value (four 16-bit limbs, least significant first).
Limb == 2 ^ 16

\* 1099511627776ULL = 2^40 = 256 * 2^32.
MODULUS == << 0, 0, 256, 0 >>

\* "0123456789abcdefghijklmnopqrstuvwxyzABCDEFGHIJKLMNOPQRSTUVWXYZ"
BASE62 ==
  << 48, 49, 50, 51, 52, 53, 54, 55, 56, 57,
     97, 98, 99, 100, 101, 102, 103, 104, 105, 106, 107, 108, 109,
     110, 111, 112, 113, 114, 115, 116, 117, 118, 119, 120, 121, 122,
     65, 66, 67, 68, 69, 70, 71, 72, 73, 74, 75, 76, 77,
     78, 79, 80, 81, 82, 83, 84, 85, 86, 87, 88, 89, 90 >>

NULL == 0

\* A char pointer that is NULL (what strdup returns when it fails); no C
\* string is equal to it.
NullUrl == << -1 >>

\* The outcome of a read through a NULL char pointer: the process is killed.
Fault == -1

(* ------------------------------ inputs -------------------------------- *)

\* Long URLs offered to gen.  "ge.io", "lo.me" and "qc.co" hash to the same
\* long_table bucket; "ab.io" and "cd.io" hash elsewhere.
UrlPool ==
  << << 103, 101, 46, 105, 111 >>,     \* "ge.io"
     << 108, 111, 46, 109, 101 >>,     \* "lo.me"
     << 97, 98, 46, 105, 111 >>,       \* "ab.io"
     << 113, 99, 46, 99, 111 >>,       \* "qc.co"
     << 99, 100, 46, 105, 111 >>,      \* "cd.io"
     << 104, 110, 46, 109, 101 >> >>   \* "hn.me"

Urls == { UrlPool[i] : i \in 1..NumUrls }

\* "jmaiKbj": the numeral of 2^40 + 1413, a code the generator never makes,
\* and in the short_table bucket of "002ujXd" (the code made from
\* global_id = 1).
ForeignCode == << 106, 109, 97, 105, 75, 98, 106 >>

(* ------------------------- 64-bit arithmetic -------------------------- *)

\* A uint64_t as limbs, for a value below 2^31.
U64(v) == << v % Limb, (v \div Limb) % Limb, 0, 0 >>

\* a + b on uint64_t (modulo 2^64).
Plus64(a, b) ==
  LET t0 == a[1] + b[1]
      t1 == a[2] + b[2] + (t0 \div Limb)
      t2 == a[3] + b[3] + (t1 \div Limb)
      t3 == a[4] + b[4] + (t2 \div Limb)
  IN  << t0 % Limb, t1 % Limb, t2 % Limb, t3 % Limb >>

\* a - b on uint64_t (modulo 2^64).
Minus64(a, b) ==
  LET t0 == Limb + a[1] - b[1]
      t1 == Limb + a[2] - b[2] - (1 - (t0 \div Limb))
      t2 == Limb + a[3] - b[3] - (1 - (t1 \div Limb))
      t3 == Limb + a[4] - b[4] - (1 - (t2 \div Limb))
  IN  << t0 % Limb, t1 % Limb, t2 % Limb, t3 % Limb >>

\* a >= b on uint64_t.
Ge64(a, b) ==
  IF a[4] # b[4] THEN a[4] > b[4]
  ELSE IF a[3] # b[3] THEN a[3] > b[3]
  ELSE IF a[2] # b[2] THEN a[2] > b[2]
  ELSE a[1] >= b[1]

\* The product a * k of a uint64_t and a constant k (both 16-bit halves of k
\* below 2^15) as five limbs: the fifth is what does not fit the 64-bit word.
TimesWide(a, k) ==
  LET k0 == k % Limb
      k1 == k \div Limb
      c0 == a[1] * k0
      c1 == a[2] * k0 + a[1] * k1 + (c0 \div Limb)
      c2 == a[3] * k0 + a[2] * k1 + (c1 \div Limb)
      c3 == a[4] * k0 + a[3] * k1 + (c2 \div Limb)
      c4 == a[4] * k1 + (c3 \div Limb)
  IN  << c0 % Limb, c1 % Limb, c2 % Limb, c3 % Limb, c4 >>

\* a * k on uint64_t: the product wraps modulo 2^64.
Times64(a, k) == SubSeq(TimesWide(a, k), 1, 4)

\* a % MODULUS.  MODULUS is 256 * 2^32: the remainder is the two low limbs
\* and the low 8 bits of the third.
ModMODULUS(a) == << a[1], a[2], a[3] % MODULUS[3], 0 >>

(* --------------------------- pure functions --------------------------- *)

\* hash = ((hash << 5) + hash) + c, in unsigned long (64 bits).
HashStep(h, c) ==
  LET t0 == h[1] * 33 + c
      t1 == h[2] * 33 + (t0 \div Limb)
      t2 == h[3] * 33 + (t1 \div Limb)
      t3 == h[4] * 33 + (t2 \div Limb)
  IN  << t0 % Limb, t1 % Limb, t2 % Limb, t3 % Limb >>

\* The while loop of hash_str: the bytes of str fed to HashStep from left to
\* right.  The loop over a string is the loop over its first half followed by
\* the loop over the rest (the evaluation nests log(n) deep, a buffer-sized
\* line has a thousand bytes); the accumulator and the rest of the string are
\* bound by a quantifier, so that each part is evaluated once and handed on
\* as a value.
RECURSIVE HashLoop(_, _)
HashLoop(h, str) ==
  IF str = << >> THEN h
  ELSE IF Len(str) = 1 THEN HashStep(h, str[1])
  ELSE CHOOSE r \in
         { HashLoop(x, t) :
             x \in { HashLoop(h, a) : a \in { SubSeq(str, 1, Len(str) \div 2) } },
             t \in { SubSeq(str, (Len(str) \div 2) + 1, Len(str)) } } : TRUE

\* hash % HASH_SIZE on the limbs.
HashReduce(h) ==
  LET r3 == h[4] % HASH_SIZE
      r2 == (r3 * Limb + h[3]) % HASH_SIZE
      r1 == (r2 * Limb + h[2]) % HASH_SIZE
  IN  (r1 * Limb + h[1]) % HASH_SIZE

hash_str(str) ==
  CHOOSE r \in { HashReduce(HashLoop(<< 5381, 0, 0, 0 >>, s)) : s \in { str } } : TRUE

\* scramble_id without the reduction modulo MODULUS.
scramble_id_no_reduce(sequential_id) ==
  IF Ge64(sequential_id, MODULUS)
    THEN U64(0)
    ELSE Times64(sequential_id, PRIME_MULTIPLIER)

\* scramble_id that maps every value to 0.
scramble_id_zero(sequential_id) == U64(0)

\* scramble_id that keeps the lowest bit of its argument only.
scramble_id_low_bit(sequential_id) == U64(sequential_id[1] % 2)

scramble_id(sequential_id) ==
  IF Ge64(sequential_id, MODULUS)
    THEN U64(0)
    ELSE ModMODULUS(Times64(sequential_id, PRIME_MULTIPLIER))

\* id % 62 and id / 62 on the low 32 bits of id only.
DivMod62_low32(id) ==
  LET t1 == id[2]
      t0 == (t1 % 62) * Limb + id[1]
  IN  [q |-> << t0 \div 62, t1 \div 62, 0, 0 >>, r |-> t0 % 62]

\* id % 62 and id / 62 on the limbs of a uint64_t (long division from the
\* most significant limb down).
DivMod62(id) ==
  LET t3 == id[4]
      t2 == (t3 % 62) * Limb + id[3]
      t1 == (t2 % 62) * Limb + id[2]
      t0 == (t1 % 62) * Limb + id[1]
  IN  [q |-> << t0 \div 62, t1 \div 62, t2 \div 62, t3 \div 62 >>, r |-> t0 % 62]

\* The loop of id_to_base62: n digits of id, most significant first; each
\* iteration takes buf[i] = BASE62[id % 62] and leaves id / 62.
RECURSIVE EncodeLoop(_, _)
EncodeLoop(id, n) ==
  IF n = 0 THEN << >>
  ELSE CHOOSE r \in { Append(EncodeLoop(d.q, n - 1), BASE62[d.r + 1]) :
                        d \in { DivMod62(id) } } : TRUE

\* id_to_base62 whose loop fills one digit less.
id_to_base62_short(id) == EncodeLoop(id, SHORT_CODE_LEN - 1)

\* id is the uint64_t argument, as limbs.
id_to_base62(id) == EncodeLoop(id, SHORT_CODE_LEN)

\* The code generate_short_url makes when global_id is id.
CandidateOf(id) ==
  CHOOSE c \in { id_to_base62(x) : x \in { scramble_id(y) : y \in { ModMODULUS(id) } } } : TRUE

\* The codes made from the values of global_id a behaviour that starts at 1
\* hands to insert_mapping within the bound ("002ujXd", "004YDUq", "007sXRD"
\* for 1, 2, 3).
GenCodes == { CandidateOf(U64(k)) : k \in 1..(MaxId - 1) }

(* ------------------------------- state -------------------------------- *)

\* Number of Node cells of the heap.
MaxNodes == NumUrls + 3

Addr == 1..MaxNodes

\* Content of a heap cell that holds no Node.
NoNode ==
  [short_code |-> << >>, long_url |-> << >>, next_short |-> NULL, next_long |-> NULL]

NoCall ==
  [op |-> "none", arg |-> << >>, ret |-> 0, out |-> << >>, dn |-> 0, dg |-> U64(0)]

VARIABLES
  short_table,   \* bucket -> head of the next_short chain
  long_table,    \* bucket -> head of the next_long chain
  heap,          \* address -> Node
  allocated,     \* addresses malloc'ed and not yet freed
  global_id,     \* the sequence counter (a uint64_t)
  pc,            \* "idle"; "gen" inside the loop of generate_short_url;
                 \* "exit" after cleanup_all; "oom" after exit(1); "crash"
                 \* when the process was killed
  gen_url,       \* argument of the running generate_short_url
  tries,         \* candidates rejected so far by the running call
  entry_id,      \* global_id when the running call was entered
  last,          \* the last completed call: its argument, result and effect
  issued,        \* the codes insert_mapping was handed, each with the global_id
                 \* it was made from: all of 1 .. through, and the set since
  stdin          \* the bytes of standard input main has not read yet

vars ==
  << short_table, long_table, heap, allocated, global_id, pc, gen_url, tries,
     entry_id, last, issued, stdin >>

Buckets == 0..(HASH_SIZE - 1)

\* The memory the store's functions work on.
Mem == [st |-> short_table, lt |-> long_table, hp |-> heap, al |-> allocated]

(* ------------------------- the store's functions ---------------------- *)

\* The nodes on the chain from cur (at most fuel of them).
RECURSIVE ChainShort(_, _, _)
ChainShort(hp, cur, fuel) ==
  IF cur = NULL \/ fuel = 0 THEN {}
  ELSE {cur} \cup ChainShort(hp, hp[cur].next_short, fuel - 1)

RECURSIVE ChainLong(_, _, _)
ChainLong(hp, cur, fuel) ==
  IF cur = NULL \/ fuel = 0 THEN {}
  ELSE {cur} \cup ChainLong(hp, hp[cur].next_long, fuel - 1)

\* The chain walk without the strcmp: the head of the bucket is the answer.
WalkShort_no_strcmp(hp, cur, short_code) == cur

\* The while loop of find_by_short: the first node of the next_short chain
\* from cur whose short_code equals the key (strcmp == 0), or NULL.
RECURSIVE WalkShort(_, _, _)
WalkShort(hp, cur, short_code) ==
  IF cur = NULL THEN NULL
  ELSE IF hp[cur].short_code = short_code THEN cur
  ELSE WalkShort(hp, hp[cur].next_short, short_code)

\* find_by_short looking in the other table.
find_by_short_other_table(m, short_code) ==
  WalkShort(m.hp, m.lt[hash_str(short_code)], short_code)

find_by_short(m, short_code) ==
  WalkShort(m.hp, m.st[hash_str(short_code)], short_code)

\* The chain walk without the strcmp: the head of the bucket is the answer.
WalkLong_no_strcmp(hp, cur, long_url) == cur

\* The while loop of find_by_long.  strcmp(cur->long_url, long_url) reads
\* through cur->long_url: on a node whose long_url is NULL the walk faults.
RECURSIVE WalkLong(_, _, _)
WalkLong(hp, cur, long_url) ==
  IF cur = NULL THEN NULL
  ELSE IF hp[cur].long_url = NullUrl THEN Fault
  ELSE IF hp[cur].long_url = long_url THEN cur
  ELSE WalkLong(hp, hp[cur].next_long, long_url)

\* find_by_long looking in the other table.
find_by_long_other_table(m, long_url) ==
  WalkLong(m.hp, m.st[hash_str(long_url)], long_url)

find_by_long(m, long_url) ==
  WalkLong(m.hp, m.lt[hash_str(long_url)], long_url)

\* malloc(sizeof(Node)) when it succeeds: an address not in use (the lowest
\* one; addresses are opaque).
malloc(al) == CHOOSE a \in Addr \ al : \A b \in Addr \ al : a <= b

\* free(node->long_url); free(node): the cell is released, and what it held
\* is no longer a Node.
free(m, node) == [m EXCEPT !.al = @ \ {node}, !.hp[node] = NoNode]

\* insert_mapping once malloc has succeeded: head insertion in both tables.
\* dup is what strdup(long_url) returned: a copy of long_url, or NULL.  The
\* buckets are those of the arguments short_code and long_url.
insert_mapping(m, short_code, long_url, dup) ==
  LET node == malloc(m.al)
      hs   == hash_str(short_code)
      hl   == hash_str(long_url)
  IN  [st |-> [m.st EXCEPT ![hs] = node],
       lt |-> [m.lt EXCEPT ![hl] = node],
       hp |-> [m.hp EXCEPT ![node] =
                 [short_code |-> short_code, long_url |-> dup,
                  next_short |-> m.st[hs], next_long |-> m.lt[hl]]],
       al |-> m.al \cup {node}]

\* The while loop of unlink_from_short_table: walk from cur, with prev
\* trailing, until cur is the node.
RECURSIVE SeekShort(_, _, _, _)
SeekShort(hp, cur, prev, node) ==
  IF cur = NULL THEN [found |-> FALSE, prev |-> prev]
  ELSE IF cur = node THEN [found |-> TRUE, prev |-> prev]
  ELSE SeekShort(hp, hp[cur].next_short, cur, node)

\* unlink_from_short_table without the prev case: the bucket head is always
\* replaced by the node's successor.
unlink_from_short_table_head(m, node) ==
  IF node = NULL THEN m
  ELSE
    LET hs == hash_str(m.hp[node].short_code)
        r  == SeekShort(m.hp, m.st[hs], NULL, node)
    IN  IF ~r.found THEN m
        ELSE [m EXCEPT !.st[hs] = m.hp[node].next_short]

unlink_from_short_table(m, node) ==
  IF node = NULL THEN m
  ELSE
    LET hs == hash_str(m.hp[node].short_code)
        r  == SeekShort(m.hp, m.st[hs], NULL, node)
    IN  IF ~r.found THEN m
        ELSE IF r.prev # NULL
          THEN [m EXCEPT !.hp[r.prev].next_short = m.hp[node].next_short]
          ELSE [m EXCEPT !.st[hs] = m.hp[node].next_short]

RECURSIVE SeekLong(_, _, _, _)
SeekLong(hp, cur, prev, node) ==
  IF cur = NULL THEN [found |-> FALSE, prev |-> prev]
  ELSE IF cur = node THEN [found |-> TRUE, prev |-> prev]
  ELSE SeekLong(hp, hp[cur].next_long, cur, node)

\* unlink_from_long_table without the prev case: the bucket head is always
\* replaced by the node's successor.
unlink_from_long_table_head(m, node) ==
  IF node = NULL THEN m
  ELSE
    LET hl == hash_str(m.hp[node].long_url)
        r  == SeekLong(m.hp, m.lt[hl], NULL, node)
    IN  IF ~r.found THEN m
        ELSE [m EXCEPT !.lt[hl] = m.hp[node].next_long]

\* For a node whose long_url is not NULL (hash_str reads through it).
unlink_from_long_table(m, node) ==
  IF node = NULL THEN m
  ELSE
    LET hl == hash_str(m.hp[node].long_url)
        r  == SeekLong(m.hp, m.lt[hl], NULL, node)
    IN  IF ~r.found THEN m
        ELSE IF r.prev # NULL
          THEN [m EXCEPT !.hp[r.prev].next_long = m.hp[node].next_long]
          ELSE [m EXCEPT !.lt[hl] = m.hp[node].next_long]

\* The removal that takes the node off its short_table chain and stops there.
remove_node_short_only(m, node) ==
  IF node = NULL THEN [ret |-> 0, mem |-> m, victim |-> << >>]
  ELSE [ret |-> 1, mem |-> unlink_from_short_table(m, node),
        victim |-> m.hp[node].long_url]

\* Both removals end the same way: unlink from both tables, free the node.
\* victim is the long URL of the node found (kept for the call record).  On a
\* node whose long_url is NULL, unlink_from_long_table faults in hash_str,
\* after the node was taken off its short_table chain.
remove_node(m, node) ==
  IF node = NULL THEN [ret |-> 0, mem |-> m, victim |-> << >>]
  ELSE IF node = Fault THEN [ret |-> Fault, mem |-> m, victim |-> << >>]
  ELSE IF m.hp[node].long_url = NullUrl
    THEN [ret |-> Fault, mem |-> unlink_from_short_table(m, node), victim |-> << >>]
  ELSE [ret    |-> 1,
        mem    |-> CHOOSE r \in
                     { free(y, node) :
                         y \in { unlink_from_long_table(x, node) :
                                   x \in { unlink_from_short_table(m, node) } } } : TRUE,
        victim |-> m.hp[node].long_url]

remove_by_short(m, short_code) ==
  CHOOSE r \in { remove_node(m, node) : node \in { find_by_short(m, short_code) } } : TRUE

remove_by_long(m, long_url) ==
  CHOOSE r \in { remove_node(m, node) : node \in { find_by_long(m, long_url) } } : TRUE

delete_short(m, short_code) == remove_by_short(m, short_code)

\* retrieve_original that takes the record out of the store once read.
retrieve_original_consuming(m, short_code, out_size) ==
  LET n == find_by_short(m, short_code)
  IN  IF n = NULL THEN [ret |-> 0, out |-> << >>, mem |-> m]
      ELSE [ret |-> 1, out |-> m.hp[n].long_url,
            mem |-> remove_by_short(m, short_code).mem]

\* strncpy(out_long_url, n->long_url, out_size - 1) and the NUL after it;
\* out_size is a size_t.  mem is the store after the call: nothing of it is
\* written.  A code that is not found returns 0 before anything is copied.
\* With out_size = 0 the count out_size - 1 wraps to SIZE_MAX: strncpy
\* writes past every buffer and the process is killed.  With out_size = 1
\* the count is 0: strncpy reads nothing, also of a long_url that is NULL,
\* and the result is the empty string.  With a larger out_size strncpy
\* reads through n->long_url (on NULL the call faults) and copies at most
\* out_size - 1 characters.
retrieve_original(m, short_code, out_size) ==
  LET n == find_by_short(m, short_code)
  IN  IF n = NULL THEN [ret |-> 0, out |-> << >>, mem |-> m]
      ELSE IF out_size = 0 THEN [ret |-> Fault, out |-> << >>, mem |-> m]
      ELSE IF out_size - 1 = 0 THEN [ret |-> 1, out |-> << >>, mem |-> m]
      ELSE IF m.hp[n].long_url = NullUrl THEN [ret |-> Fault, out |-> << >>, mem |-> m]
      ELSE LET url == m.hp[n].long_url
               k   == IF Len(url) < out_size - 1 THEN Len(url) ELSE out_size - 1
           IN  [ret |-> 1, out |-> SubSeq(url, 1, k), mem |-> m]

\* The counter advanced by two.
next_id_twice(id) == Plus64(id, U64(2))

\* The counter left as it is.
next_id_stuck(id) == id

\* global_id++ on a uint64_t.
next_id(id) == Plus64(id, U64(1))

\* The least element of a non-empty set of integers.
SetMin(S) == CHOOSE x \in S : \A y \in S : x <= y

\* printf("%s -> %s\n", cur->short_code, cur->long_url), without the newline.
\* A long_url that is NULL is printed as "(null)" (when printf does not
\* fault on it).
PrintLine(node) ==
  node.short_code \o << 32, 45, 62, 32 >>
    \o (IF node.long_url = NullUrl THEN << 40, 110, 117, 108, 108, 41 >>
        ELSE node.long_url)

\* The while loop of print_all_mappings that stops after the first node.
PrintChain_first_only(hp, cur) ==
  IF cur = NULL THEN << >> ELSE << PrintLine(hp[cur]) >>

\* The while loop of print_all_mappings: one line per node of the chain.
RECURSIVE PrintChain(_, _)
PrintChain(hp, cur) ==
  IF cur = NULL THEN << >>
  ELSE << PrintLine(hp[cur]) >> \o PrintChain(hp, hp[cur].next_short)

\* The for loop of print_all_mappings over the buckets still to visit, in
\* increasing order (bs holds the non-empty ones: an empty bucket prints
\* nothing).
RECURSIVE PrintBuckets(_, _)
PrintBuckets(m, bs) ==
  IF bs = {} THEN << >>
  ELSE CHOOSE r \in { PrintChain(m.hp, m.st[i]) \o PrintBuckets(m, bs \ {i}) :
                        i \in { SetMin(bs) } } : TRUE

\* The lines print_all_mappings writes after its heading.
print_all_mappings(m) == PrintBuckets(m, { i \in Buckets : m.st[i] # NULL })

\* cleanup_all: every node on a short_table chain is freed, every bucket of
\* both tables is set to NULL.
cleanup_all(m) ==
  LET freed == UNION { ChainShort(m.hp, m.st[i], MaxNodes + 1) :
                         i \in { x \in Buckets : m.st[x] # NULL } }
  IN  [st |-> [i \in Buckets |-> NULL],
       lt |-> [i \in Buckets |-> NULL],
       hp |-> [a \in Addr |-> IF a \in freed THEN NoNode ELSE m.hp[a]],
       al |-> m.al \ freed]

\* The for loop of count on one table: the counter, from its start value, is
\* incremented once for every bucket that is not NULL.
CountBuckets(table, start) ==
  start + Cardinality({ i \in Buckets : table[i] # NULL })

\* count whose counters are not set to 0 (they start with what the stack
\* held: here HASH_SIZE).
count_uninitialised(m) ==
  [short_count |-> CountBuckets(m.st, HASH_SIZE),
   long_count  |-> CountBuckets(m.lt, HASH_SIZE)]

\* The two numbers count prints.
count(m) ==
  [short_count |-> CountBuckets(m.st, 0),
   long_count  |-> CountBuckets(m.lt, 0)]

(* --------------------------- main's line reader ----------------------- *)

\* fgets(buffer, size, stdin) on a non-empty input: the bytes up to and
\* including the first newline, at most size - 1 of them; rest stays unread.
fgets(in, size) ==
  LET lim == IF Len(in) < size - 1 THEN Len(in) ELSE size - 1
      nl  == { i \in 1..lim : in[i] = 10 }
      n   == IF nl # {} THEN SetMin(nl) ELSE lim
  IN  [buf |-> SubSeq(in, 1, n), rest |-> SubSeq(in, n + 1, Len(in))]

\* buffer[strcspn(buffer, "\n")] = 0, and the buffer read as a C string from
\* then on: strcspn stops at the first newline or at the first NUL byte
\* fgets has stored, and the string ends there.
StripNewline(buffer) ==
  LET ends == { i \in 1..Len(buffer) : buffer[i] \in {10, 0} }
  IN  IF ends = {} THEN buffer ELSE SubSeq(buffer, 1, SetMin(ends) - 1)

\* isspace in the C locale.
IsSpace(c) == c \in {32, 9, 10, 11, 12, 13}

\* sscanf(str, "%<width>s", s): white space is skipped, then at most width
\* bytes up to the next white space are stored; n is 1 when a token was read.
sscanf_s(str, width) ==
  LET nonws == { i \in 1..Len(str) : ~IsSpace(str[i]) }
  IN  IF nonws = {} THEN [n |-> 0, s |-> << >>]
      ELSE LET from == SetMin(nonws)
               ws   == { i \in from..Len(str) : IsSpace(str[i]) }
               stop == IF ws = {} THEN Len(str) + 1 ELSE SetMin(ws)
               len  == IF stop - from < width THEN stop - from ELSE width
           IN  [n |-> 1, s |-> SubSeq(str, from, from + len - 1)]

\* while (*p == ' ') p++;
SkipSpaces(p) ==
  LET other == { i \in 1..Len(p) : p[i] # 32 }
  IN  IF other = {} THEN << >> ELSE SubSeq(p, SetMin(other), Len(p))

\* buffer + 3
Plus3(buffer) == SubSeq(buffer, 4, Len(buffer))

\* The command words main compares cmd with.
CmdGen == << 103, 101, 110 >>

CmdGet == << 103, 101, 116 >>

CmdDel == << 100, 101, 108 >>

CmdList == << 108, 105, 115, 116 >>

CmdCount == << 99, 111, 117, 110, 116 >>

CmdExit == << 101, 120, 105, 116 >>


(* ------------------------------ actions ------------------------------- *)

\* The program after its static initialisers, before main reads a line.
Start ==
  /\ short_table = [i \in Buckets |-> NULL]
  /\ long_table = [i \in Buckets |-> NULL]
  /\ heap = [a \in Addr |-> NoNode]
  /\ allocated = {}
  /\ global_id = U64(1)
  /\ pc = "idle"
  /\ gen_url = << >>
  /\ tries = 0
  /\ entry_id = U64(0)
  /\ last = NoCall
  /\ issued = [through |-> U64(0), since |-> {}]

Init == Start /\ stdin = << >>

SetMem(m) ==
  /\ short_table' = m.st
  /\ long_table' = m.lt
  /\ heap' = m.hp
  /\ allocated' = m.al

\* A read through a NULL long_url has killed the process; m is the memory at
\* that point.
Crash(m) ==
  /\ SetMem(m)
  /\ pc' = "crash"
  /\ last' = [NoCall EXCEPT !.op = "crash"]
  /\ UNCHANGED << global_id, gen_url, tries, entry_id, issued >>

\* The candidates the loop of generate_short_url rejects from global_id = id
\* on (those that find_by_short finds), n being the number of live records.
RECURSIVE Rejects(_, _, _)
Rejects(m, id, n) ==
  IF n = 0 \/ find_by_short(m, CandidateOf(id)) = NULL THEN 0
  ELSE CHOOSE r \in { 1 + Rejects(m, x, n - 1) : x \in { next_id(id) } } : TRUE

\* gen <long_url>: generate_short_url up to its loop.  A URL already stored
\* returns its code; otherwise the call enters the candidate loop.  The bound
\* MaxId caps the counter: a call for a new URL is followed while it returns
\* with the low limb of global_id at most MaxId.
GenCall(u) ==
  /\ pc = "idle"
  /\ \E existing \in { find_by_long(Mem, u) } :
         IF existing = Fault THEN Crash(Mem)
         ELSE IF existing # NULL
           THEN /\ last' = [op |-> "gen", arg |-> u, ret |-> 1,
                            out |-> heap[existing].short_code, dn |-> 0,
                            dg |-> U64(0)]
                /\ UNCHANGED << short_table, long_table, heap, allocated,
                                global_id, pc, gen_url, tries, entry_id, issued >>
           ELSE /\ global_id[1] + Rejects(Mem, global_id, Cardinality(allocated)) < MaxId
                /\ pc' = "gen"
                /\ gen_url' = u
                /\ tries' = 0
                /\ entry_id' = global_id
                /\ UNCHANGED << short_table, long_table, heap, allocated,
                                global_id, last, issued >>

\* insert_mapping(candidate, long_url) with malloc successful, and the return
\* of generate_short_url after it; dup is what strdup returned.
GenInsert(candidate, dup) ==
  /\ Addr \ allocated # {}
  /\ \E m \in { insert_mapping(Mem, candidate, gen_url, dup) } : SetMem(m)
  /\ global_id' = next_id(global_id)
  /\ pc' = "idle"
  /\ gen_url' = << >>
  /\ tries' = 0
  /\ entry_id' = U64(0)
  /\ issued' = [issued EXCEPT !.since = @ \cup { [code |-> candidate, id |-> global_id] }]
  /\ last' = [op |-> "gen", arg |-> gen_url, ret |-> 1, out |-> candidate,
              dn |-> Cardinality(allocated') - Cardinality(allocated),
              dg |-> Minus64(global_id', entry_id)]

\* One iteration of the for (;;) loop of generate_short_url.  When the
\* candidate is free, insert_mapping runs: malloc gives a node or NULL
\* ("Out of memory", exit(1)), and strdup gives a copy of the URL or NULL.
GenIter ==
  /\ pc = "gen"
  /\ \E seq \in { ModMODULUS(global_id) } :
     \E scrambled \in { scramble_id(seq) } :
     \E candidate \in { id_to_base62(scrambled) } :
         IF find_by_short(Mem, candidate) = NULL
           THEN \/ GenInsert(candidate, gen_url)
                \/ GenInsert(candidate, NullUrl)
                \/ /\ pc' = "oom"
                   /\ last' = [NoCall EXCEPT !.op = "oom"]
                   /\ UNCHANGED << short_table, long_table, heap, allocated,
                                   global_id, gen_url, tries, entry_id, issued >>
           ELSE /\ global_id' = next_id(global_id)
                /\ tries' = tries + 1
                /\ UNCHANGED << short_table, long_table, heap, allocated,
                                pc, gen_url, entry_id, last, issued >>
  /\ UNCHANGED stdin

\* get <short_code>: retrieve_original(sc, longurl, sizeof(longurl)), with
\* char longurl[LONG_URL_MAX].
Get(c) ==
  /\ pc = "idle"
  /\ \E r \in { retrieve_original(Mem, c, LONG_URL_MAX) } :
         IF r.ret = Fault THEN Crash(r.mem)
         ELSE /\ SetMem(r.mem)
              /\ last' = [op |-> "get", arg |-> c, ret |-> r.ret, out |-> r.out,
                          dn |-> Cardinality(r.mem.al) - Cardinality(allocated),
                          dg |-> U64(0)]
              /\ UNCHANGED << global_id, pc, gen_url, tries, entry_id, issued >>

\* del <short_code>: delete_short(sc).
Del(c) ==
  /\ pc = "idle"
  /\ \E r \in { delete_short(Mem, c) } :
         IF r.ret = Fault THEN Crash(r.mem)
         ELSE /\ SetMem(r.mem)
              /\ last' = [op |-> "del", arg |-> c, ret |-> r.ret, out |-> r.victim,
                          dn |-> Cardinality(r.mem.al) - Cardinality(allocated),
                          dg |-> U64(0)]
              /\ UNCHANGED << global_id, pc, gen_url, tries, entry_id, issued >>

\* remove_by_long(long_url), called on its own (no command of main calls it).
RemoveLong(u) ==
  /\ pc = "idle"
  /\ \E r \in { remove_by_long(Mem, u) } :
         IF r.ret = Fault THEN Crash(r.mem)
         ELSE /\ SetMem(r.mem)
              /\ last' = [op |-> "rml", arg |-> u, ret |-> r.ret, out |-> r.victim,
                          dn |-> Cardinality(r.mem.al) - Cardinality(allocated),
                          dg |-> U64(0)]
              /\ UNCHANGED << global_id, pc, gen_url, tries, entry_id, issued >>

\* list: print_all_mappings().  printf of a long_url that is NULL writes
\* "(null)" or faults.
List ==
  /\ pc = "idle"
  /\ \/ /\ last' = [op |-> "list", arg |-> << >>, ret |-> 0,
                    out |-> print_all_mappings(Mem), dn |-> 0, dg |-> U64(0)]
        /\ UNCHANGED << short_table, long_table, heap, allocated, global_id, pc,
                        gen_url, tries, entry_id, issued >>
     \/ /\ \E a \in allocated : heap[a].long_url = NullUrl
        /\ Crash(Mem)

\* count: count().
Count ==
  /\ pc = "idle"
  /\ last' = [op |-> "count", arg |-> << >>, ret |-> 0,
              out |-> << count(Mem).short_count, count(Mem).long_count >>,
              dn |-> 0, dg |-> U64(0)]
  /\ UNCHANGED << short_table, long_table, heap, allocated, global_id, pc,
                  gen_url, tries, entry_id, issued >>

\* break out of the loop of main: cleanup_all() and return.
Exit ==
  /\ pc' = "exit"
  /\ \E m \in { cleanup_all(Mem) } : SetMem(m)
  /\ last' = [NoCall EXCEPT !.op = "exit"]
  /\ UNCHANGED << global_id, gen_url, tries, entry_id, issued >>

\* exit, or the end of the input.
Quit == pc = "idle" /\ Exit

\* Sizes of the buffer retrieve_original is looked at with: none, room for
\* the NUL only, room for one character, and that of main (sizeof(longurl)).
OutSizes == { 0, 1, 2, LONG_URL_MAX }

\* Short codes offered to get and del: the codes of GenCodes, the codes of
\* the records of LaterStores, and ForeignCode.
CodeInputs ==
  GenCodes
    \cup { CandidateOf(<< 28031, 1507, 66, 0 >>),
           CandidateOf(<< 44072, 18598, 81, 0 >>),
           CandidateOf(<< 12707, 21717, 95, 0 >>) }
    \cup { ForeignCode }

Next ==
  \/ \E u \in Urls : GenCall(u) /\ UNCHANGED stdin
  \/ GenIter
  \/ \E c \in CodeInputs : Get(c) /\ UNCHANGED stdin
  \/ \E c \in CodeInputs : Del(c) /\ UNCHANGED stdin
  \/ List /\ UNCHANGED stdin
  \/ Count /\ UNCHANGED stdin
  \/ Quit /\ UNCHANGED stdin

Spec == Init /\ [][Next]_vars

(* ------------------ the program after a period of global_id ----------- *)

\* A memory with no record.
EmptyMem ==
  [st |-> [i \in Buckets |-> NULL],
   lt |-> [i \in Buckets |-> NULL],
   hp |-> [a \in Addr |-> NoNode],
   al |-> {}]

\* The records live when global_id has gone through 1 .. 2^40 and stands at
\* 2^40 + 1: the program gets there from its construction by gen commands
\* for 2^40 long URLs, never stored before, and a del of the code of each
\* but the ones listed (no candidate collides on the way, each value of
\* global_id makes one record).  id is the global_id the code of a record was
\* made from.  The codes made from 283566632319, 349111233576 and
\* 409445151139 ("00000Md", "00000kw", "00000m5") share a short_table
\* bucket, and the three long URLs stored with them share a long_table
\* bucket.
LaterStores ==
  { << [id |-> U64(1), url |-> UrlPool[4]],
       [id |-> U64(2), url |-> UrlPool[5]] >>,
    << [id |-> << 28031, 1507, 66, 0 >>, url |-> UrlPool[1]],
       [id |-> << 44072, 18598, 81, 0 >>, url |-> UrlPool[2]],
       [id |-> << 12707, 21717, 95, 0 >>, url |-> UrlPool[4]] >> }

\* The memory after insert_mapping has run for the records of recs, in the
\* order of their global_id.
RECURSIVE Inserted(_, _)
Inserted(m, recs) ==
  IF recs = << >> THEN m
  ELSE CHOOSE r \in
         { Inserted(x, t) :
             x \in { insert_mapping(m, CandidateOf(Head(recs).id),
                                    Head(recs).url, Head(recs).url) },
             t \in { Tail(recs) } } : TRUE

\* The program as constructed, or one period of global_id later.
WrapInit ==
  \/ Init
  \/ \E recs \in LaterStores :
       /\ short_table = Inserted(EmptyMem, recs).st
       /\ long_table = Inserted(EmptyMem, recs).lt
       /\ heap = Inserted(EmptyMem, recs).hp
       /\ allocated = Inserted(EmptyMem, recs).al
       /\ global_id = Plus64(MODULUS, U64(1))
       /\ pc = "idle"
       /\ gen_url = << >>
       /\ tries = 0
       /\ entry_id = U64(0)
       /\ last = NoCall
       /\ issued = [through |-> MODULUS, since |-> {}]
       /\ stdin = << >>

WrapSpec == WrapInit /\ [][Next]_vars

\* The store called through its functions: the commands of main, and
\* remove_by_long, which no command of main calls.
StoreNext ==
  \/ Next
  \/ \E u \in Urls : RemoveLong(u) /\ UNCHANGED stdin

StoreSpec == WrapInit /\ [][StoreNext]_vars

\* The loop of generate_short_url keeps running once entered.
FairWrapSpec == WrapSpec /\ WF_vars(GenIter)

(* ------------------------- main on its input -------------------------- *)

\* A reply of main that leaves the store alone (a usage line, an error line,
\* "Unknown command.").
Say(what) ==
  /\ last' = [NoCall EXCEPT !.op = what]
  /\ UNCHANGED << short_table, long_table, heap, allocated, global_id, pc,
                  gen_url, tries, entry_id, issued >>

\* continue without output (an empty line).
Continue ==
  UNCHANGED << short_table, long_table, heap, allocated, global_id, pc,
               gen_url, tries, entry_id, issued, last >>

\* One pass through the while (1) loop of main: fgets fills buffer (of
\* LONG_URL_MAX bytes) from stdin, the newline is cut, the command word is
\* scanned and the branch of the command runs.
MainLoop ==
  /\ pc = "idle"
  /\ IF stdin = << >>
       THEN stdin' = stdin /\ Exit
       ELSE LET f      == fgets(stdin, LONG_URL_MAX)
                buffer == StripNewline(f.buf)
                cmd    == sscanf_s(buffer, 15)
            IN  /\ stdin' = f.rest
                /\ IF Len(buffer) = 0 \/ cmd.n # 1 THEN Continue
                   ELSE IF cmd.s = CmdGen THEN
                     LET p == SkipSpaces(Plus3(buffer))
                     IN  IF p = << >> THEN Say("usage")
                         ELSE IF Len(p) >= LONG_URL_MAX THEN Say("too long")
                         ELSE GenCall(p)
                   ELSE IF cmd.s = CmdGet THEN
                     LET sc == sscanf_s(Plus3(buffer), SHORT_CODE_LEN)
                     IN  IF sc.n # 1 THEN Say("usage") ELSE Get(sc.s)
                   ELSE IF cmd.s = CmdDel THEN
                     LET sc == sscanf_s(Plus3(buffer), SHORT_CODE_LEN)
                     IN  IF sc.n # 1 THEN Say("usage") ELSE Del(sc.s)
                   ELSE IF cmd.s = CmdList THEN List
                   ELSE IF cmd.s = CmdCount THEN Count
                   ELSE IF cmd.s = CmdExit THEN Exit
                   ELSE Say("unknown")

\* A long URL of more than LONG_URL_MAX - 1 characters: as many 'a' as the
\* buffer takes after "gen ", then "del 004YDUq" (the code made from
\* global_id = 2).
TooLongUrl ==
  [i \in 1..(LONG_URL_MAX - 5) |-> 97] \o CmdDel \o << 32 >> \o CandidateOf(U64(2))

\* The lines typed at the prompt, each with its newline; "gen b\0a" holds a
\* NUL byte; get and del name "002ujXd", the code made from global_id = 1.
CliLines ==
  { CmdGen \o << 32 >> \o UrlPool[1] \o << 10 >>,
    CmdGen \o << 32 >> \o TooLongUrl \o << 10 >>,
    CmdGen \o << 32, 98, 0, 97, 10 >>,
    CmdGen \o << 10 >>,
    CmdGet \o << 32 >> \o CandidateOf(U64(1)) \o << 10 >>,
    CmdDel \o << 32 >> \o CandidateOf(U64(1)) \o << 10 >>,
    CmdDel \o << 10 >>,
    CmdList \o << 10 >>,
    CmdCount \o << 10 >>,
    CmdExit \o << 10 >>,
    << 104, 101, 108, 112, 10 >>,
    << 10 >> }

\* The inputs of at most n lines.
RECURSIVE Scripts(_)
Scripts(n) ==
  IF n = 0 THEN { << >> }
  ELSE Scripts(n - 1) \cup { l \o t : l \in CliLines, t \in Scripts(n - 1) }

CliInit == Start /\ stdin \in Scripts(MaxLines)

CliNext ==
  \/ MainLoop
  \/ GenIter

CliSpec == CliInit /\ [][CliNext]_vars

(* ---------------------- the two pure functions ------------------------ *)

\* Arguments of scramble_id (uint64_t values as limbs): small values; the
\* values on both sides of 2^64 / PRIME_MULTIPLIER (501553447171 has its
\* product below 2^64, 501553447172 past it); 2^39, 2^39 + 1, 2^40 - 1; and
\* the values 2^40, 2^40 + 1 and 2^64 - 1 past the modulus.
ScrambleInputs ==
  { U64(v) : v \in 0..MaxPlain }
    \cup { << 16643, 50922, 116, 0 >>,
           << 16644, 50922, 116, 0 >>,
           << 0, 0, 128, 0 >>,
           << 1, 0, 128, 0 >>,
           << 28031, 1507, 66, 0 >>,
           << 36885, 41664, 117, 0 >>,
           << 65535, 65535, 255, 0 >>,
           << 0, 0, 256, 0 >>,
           << 1, 0, 256, 0 >>,
           << 65535, 65535, 65535, 65535 >> }

\* Arguments of id_to_base62 (uint64_t values as limbs): small values, the
\* values around the powers of 62, and values of [0, 2^40) past 32 bits:
\* 2^31, 2^32, 62^6 - 1, 62^6, 10^12, 2^40 - 62 and 2^40 - 1.
EncodeInputs ==
  { U64(v) : v \in 0..MaxPlain }
    \cup { U64((62 ^ k) - 1) : k \in 1..5 }
    \cup { U64(62 ^ k) : k \in 1..5 }
    \cup { << 0, 32768, 0, 0 >>,
           << 0, 0, 1, 0 >>,
           << 53311, 14734, 13, 0 >>,
           << 53312, 14734, 13, 0 >>,
           << 4096, 54437, 232, 0 >>,
           << 65474, 65535, 255, 0 >>,
           << 65535, 65535, 255, 0 >> }

\* scramble_id(s), called on its own.
ApplyScramble(s) ==
  /\ pc = "idle"
  /\ last' = [op |-> "scramble_id", arg |-> s, ret |-> 0,
              out |-> scramble_id(s), dn |-> 0, dg |-> U64(0)]
  /\ UNCHANGED << short_table, long_table, heap, allocated, global_id, pc,
                  gen_url, tries, entry_id, issued, stdin >>

\* id_to_base62(id, out), called on its own.
ApplyEncode(id) ==
  /\ pc = "idle"
  /\ last' = [op |-> "id_to_base62", arg |-> id, ret |-> 0,
              out |-> id_to_base62(id), dn |-> 0, dg |-> U64(0)]
  /\ UNCHANGED << short_table, long_table, heap, allocated, global_id, pc,
                  gen_url, tries, entry_id, issued, stdin >>

PureNext ==
  \/ \E s \in ScrambleInputs : ApplyScramble(s)
  \/ \E id \in EncodeInputs : ApplyEncode(id)

PureSpec == Init /\ [][PureNext]_vars

(* ----------------------- the store as a set of records ---------------- *)

\* The nodes reachable through the short-code index.
ShortIndex ==
  UNION { ChainShort(heap, short_table[b], MaxNodes + 1) :
            b \in { x \in Buckets : short_table[x] # NULL } }

\* The nodes reachable through the long-URL index.
LongIndex ==
  UNION { ChainLong(heap, long_table[b], MaxNodes + 1) :
            b \in { x \in Buckets : long_table[x] # NULL } }

\* The live records are the nodes allocated and not freed.
LiveCount == Cardinality(allocated)

LiveCodes == { heap[a].short_code : a \in allocated }

\* An allocation has failed: the process has ended on it ("Out of memory",
\* or killed on a NULL long_url), or a live record has a NULL long_url.
AllocationFailed ==
  \/ pc \in {"oom", "crash"}
  \/ \E a \in allocated : heap[a].long_url = NullUrl

(* ------------------------- the codes issued so far -------------------- *)

\* issued is the history of insert_mapping's codes in two parts: every
\* global_id of 1 .. issued.through made a code that was handed to
\* insert_mapping (before global_id passes MODULUS no candidate meets a live
\* code, so each iteration inserts), and issued.since holds the codes handed
\* over after that, each with its global_id.

\* The 62 symbols 0-9, a-z, A-Z.
Alnum == (48..57) \cup (97..122) \cup (65..90)

FixedWidth(code) ==
  /\ Len(code) = 7
  /\ \A i \in 1..Len(code) : code[i] \in Alnum

\* The five bytes of a value below 2^40, least significant first.
Bytes40(a) ==
  << a[1] % 256, a[1] \div 256, a[2] % 256, a[2] \div 256, a[3] % 256 >>

\* The value of five bytes, as limbs.
FromBytes40(b) == << b[1] + 256 * b[2], b[3] + 256 * b[4], b[5], 0 >>

\* x * y modulo 2^40 on bytes: the columns of the long multiplication below
\* 2^40, nothing above them formed.
MulMod40(x, y) ==
  LET c0 == x[1] * y[1]
      c1 == x[1] * y[2] + x[2] * y[1] + (c0 \div 256)
      c2 == x[1] * y[3] + x[2] * y[2] + x[3] * y[1] + (c1 \div 256)
      c3 == x[1] * y[4] + x[2] * y[3] + x[3] * y[2] + x[4] * y[1] + (c2 \div 256)
      c4 == x[1] * y[5] + x[2] * y[4] + x[3] * y[3] + x[4] * y[2] + x[5] * y[1]
              + (c3 \div 256)
  IN  << c0 % 256, c1 % 256, c2 % 256, c3 % 256, c4 % 256 >>

\* (a * b) mod 2^40 for a, b below 2^40.
TimesMod40(a, b) == FromBytes40(MulMod40(Bytes40(a), Bytes40(b)))

\* 760078484315, the inverse of PRIME_MULTIPLIER modulo 2^40.
PrimeInverse == << 17243, 63541, 176, 0 >>

\* The value of a base-62 digit.
DigitOf(c) == CHOOSE d \in 0..61 : BASE62[d + 1] = c

\* acc * 62 + d on the limbs of a 64-bit value.
MulAdd62(acc, d) ==
  LET t0 == acc[1] * 62 + d
      t1 == acc[2] * 62 + (t0 \div Limb)
      t2 == acc[3] * 62 + (t1 \div Limb)
      t3 == acc[4] * 62 + (t2 \div Limb)
  IN  << t0 % Limb, t1 % Limb, t2 % Limb, t3 % Limb >>

\* The value of a code read as a base-62 numeral, most significant digit
\* first.
RECURSIVE DecodeLoop(_, _)
DecodeLoop(acc, code) ==
  IF code = << >> THEN acc
  ELSE CHOOSE r \in { DecodeLoop(x, t) : x \in { MulAdd62(acc, DigitOf(Head(code))) },
                                         t \in { Tail(code) } } : TRUE

Decode(code) == DecodeLoop(<< 0, 0, 0, 0 >>, code)

\* The global_id of 1 .. MODULUS that makes code: scramble_id is undone by
\* the multiplication with PrimeInverse, and the residue 0 is that of
\* global_id = MODULUS.  Empty for a string the generator does not make.
FirstPeriodIds(code) ==
  IF ~FixedWidth(code) THEN {}
  ELSE IF Ge64(Decode(code), MODULUS) THEN {}
  ELSE { i \in { IF x = U64(0) THEN MODULUS ELSE x :
                   x \in { TimesMod40(Decode(code), PrimeInverse) } } :
           CandidateOf(i) = code }

\* The values of global_id from which code was handed to insert_mapping.
IssuedFrom(code) ==
  { i \in FirstPeriodIds(code) : Ge64(issued.through, i) }
    \cup { x.id : x \in { y \in issued.since : y.code = code } }

(* ------------------------------- claims ------------------------------- *)

\* C1: in every state between operations (none of them cut short by a
\* fault) the records reachable through short_table (next_short chains) are
\* exactly the records reachable through long_table (next_long chains), and
\* none of them is a freed node.
C1_IndexesAgree ==
  pc # "crash" =>
    /\ ShortIndex = LongIndex
    /\ ShortIndex \subseteq allocated
    /\ LongIndex \subseteq allocated

\* C1 witness: remove_by_long has removed the record of a long URL from a
\* long_table chain of three, and the two records left are in both indexes.
C1_Witness ==
  /\ last.op = "rml"
  /\ last.ret = 1
  /\ LiveCount = 2
  /\ hash_str(heap[long_table[hash_str(last.arg)]].long_url) = hash_str(last.arg)
  /\ ShortIndex = allocated
  /\ LongIndex = allocated

\* C2: shorten(u) right after shorten(u) returns the same code, the two calls
\* together add at most one record, and in every state a long_url is held by
\* at most one record.
C2_OneRecordPerUrl ==
  \A a, b \in allocated :
    (heap[a].long_url = heap[b].long_url /\ heap[a].long_url # NullUrl) => a = b

C2_Idempotent ==
  /\ []C2_OneRecordPerUrl
  /\ [][ ( /\ pc' = "idle"
           /\ last.op = "gen"
           /\ last'.op = "gen"
           /\ last'.arg = last.arg )
         => ( /\ last'.out = last.out
              /\ last.dn + last'.dn <= 1 ) ]_vars

\* C2 witness: a shorten call has returned the code of a record that was
\* already stored, next to a second record.
C2_Witness ==
  /\ last.op = "gen"
  /\ last.dn = 0
  /\ LiveCount = 2
  /\ ~AllocationFailed
  /\ find_by_long(Mem, last.arg) # NULL

\* C3: while no allocation has failed, for every live record (c, u),
\* resolve(c) finds exactly u and shorten(u) returns c; and the code the last
\* shorten returned resolves to its URL.
C3_RoundTrip ==
  ~AllocationFailed =>
    /\ \A a \in allocated :
         /\ retrieve_original(Mem, heap[a].short_code, LONG_URL_MAX).ret = 1
         /\ retrieve_original(Mem, heap[a].short_code, LONG_URL_MAX).out = heap[a].long_url
         /\ find_by_long(Mem, heap[a].long_url) # NULL
         /\ heap[find_by_long(Mem, heap[a].long_url)].short_code = heap[a].short_code
    /\ (last.op = "gen" /\ pc \in {"idle", "gen"})
         => /\ retrieve_original(Mem, last.out, LONG_URL_MAX).ret = 1
            /\ retrieve_original(Mem, last.out, LONG_URL_MAX).out = last.arg

\* C3 witness: shorten has just returned, and two live records share a
\* long_table bucket.
C3_Witness ==
  /\ last.op = "gen"
  /\ ~AllocationFailed
  /\ \E a, b \in allocated :
       /\ a # b
       /\ hash_str(heap[a].long_url) = hash_str(heap[b].long_url)

\* C4: no two live records have the same short_code.
C4_UniqueCodes ==
  \A a, b \in allocated : heap[a].short_code = heap[b].short_code => a = b

\* C4 witness: the counter is past the modulus, the last shorten met a live
\* code on the way, and two distinct URLs are live.
C4_Witness ==
  /\ last.op = "gen"
  /\ Ge64(last.dg, U64(2))
  /\ Ge64(global_id, MODULUS)
  /\ LiveCount = 2
  /\ ~AllocationFailed

\* C5: while no allocation has failed, after a successful delete(c) of the
\* record (c, u), resolve(c) reports not found and u is not found in the
\* long-URL index; the next shorten(u) creates a record (count + 1) and
\* invokes the generator.
C5_Deleted ==
  (~AllocationFailed /\ last.op = "del" /\ last.ret = 1)
    => /\ retrieve_original(Mem, last.arg, LONG_URL_MAX).ret = 0
       /\ find_by_long(Mem, last.out) = NULL

C5_DeleteRemovesBoth ==
  /\ []C5_Deleted
  /\ [][ ( /\ last.op = "del"
           /\ last.ret = 1
           /\ pc' = "idle"
           /\ last'.op = "gen"
           /\ last'.arg = last.out )
         => ( /\ last'.dn = 1
              /\ Ge64(last'.dg, U64(1))
              /\ pc = "gen" ) ]_vars

\* C5 witness: a record was deleted by its code while another one stays.
C5_Witness ==
  /\ last.op = "del"
  /\ last.ret = 1
  /\ last.out \in Urls
  /\ LiveCount = 1
  /\ last.arg \notin LiveCodes
  /\ ~AllocationFailed

\* C6: a shorten call for a URL not in the store (fewer than MODULUS records
\* are live) has rejected no more candidates than there are live records; it
\* ends; and unless malloc fails it ends with a newly inserted record whose
\* code was absent from the short-code index, at most MODULUS candidates
\* after it began.
C6_FewRejects ==
  pc = "gen" => (~Ge64(U64(LiveCount), MODULUS) /\ tries <= LiveCount)

C6_Terminates ==
  /\ []C6_FewRejects
  /\ [][ (pc = "gen" /\ pc' = "idle")
         => ( /\ last'.op = "gen"
              /\ last'.arg = gen_url
              /\ find_by_short(Mem, last'.out) = NULL
              /\ find_by_short(Mem', last'.out) # NULL
              /\ heap'[find_by_short(Mem', last'.out)].long_url \in {gen_url, NullUrl}
              /\ LiveCount' = LiveCount + 1
              /\ Ge64(MODULUS, last'.dg) ) ]_vars
  /\ [][ (pc = "gen" /\ pc' # "gen") => pc' \in {"idle", "oom"} ]_vars
  /\ ((pc = "gen") ~> (pc # "gen"))

\* C6 witness: past the modulus, a shorten call inserted its record with the
\* third candidate, after the first two collided with live codes.
C6_Witness ==
  /\ last.op = "gen"
  /\ last.dn = 1
  /\ last.dg = U64(3)
  /\ pc = "idle"
  /\ Ge64(global_id, MODULUS)
  /\ ~AllocationFailed

\* C8 as stated: every completed shorten call has advanced global_id by at
\* least one.
C8_EveryCallAdvances ==
  last.op = "gen" => Ge64(last.dg, U64(1))

\* C8 amended: a shorten call that inserts a record advances global_id by at
\* least one, and by more than one when a candidate collided with a live code;
\* a shorten call for a URL already stored leaves global_id unchanged.
C8_NewUrlAdvances ==
  /\ [][ (pc = "gen" /\ pc' = "idle")
         => ( /\ Ge64(Minus64(global_id', entry_id), U64(1))
              /\ last'.dg = Minus64(global_id', entry_id)
              /\ (tries > 0 => Ge64(Minus64(global_id', entry_id), U64(2))) ) ]_vars
  /\ [][ (pc = "idle" /\ pc' = "idle" /\ last'.op = "gen")
         => ( /\ global_id' = global_id
              /\ find_by_long(Mem, last'.arg) \notin {NULL, Fault} ) ]_vars
  /\ [][ (pc = "gen" /\ pc' = "gen")
         => ( /\ global_id' = Plus64(global_id, U64(1))
              /\ find_by_short(Mem, CandidateOf(global_id)) # NULL ) ]_vars

\* C8 witness: a shorten call inserted a record after a collision.
C8_Witness ==
  /\ last.op = "gen"
  /\ last.dn = 1
  /\ Ge64(last.dg, U64(2))

\* C9: delete(c) for a code no record has returns false and changes neither
\* index, no record and not the counter; delete(c) right after a successful
\* delete(c) returns false.
C9_AbsentIsNoOp ==
  pc = "idle" =>
    \A c \in CodeInputs :
      c \notin LiveCodes => delete_short(Mem, c) = [ret |-> 0, mem |-> Mem, victim |-> << >>]

C9_DeleteAbsent ==
  /\ []C9_AbsentIsNoOp
  /\ [][ (pc = "idle" /\ pc' = "idle" /\ last'.op = "del" /\ last'.ret = 0)
         => UNCHANGED << short_table, long_table, heap, allocated, global_id >> ]_vars
  /\ [][ ( /\ pc = "idle"
           /\ pc' = "idle"
           /\ last.op = "del"
           /\ last.ret = 1
           /\ last'.op = "del"
           /\ last'.arg = last.arg )
         => last'.ret = 0 ]_vars

\* C9 witness: delete of a code no record has, whose bucket holds a record,
\* returned false.
C9_Witness ==
  /\ last.op = "del"
  /\ last.ret = 0
  /\ last.arg = ForeignCode
  /\ short_table[hash_str(ForeignCode)] # NULL

\* C10: every code returned by shorten and the short_code of every live
\* record has exactly 7 characters, all of them in 0-9, a-z, A-Z.
C10_FixedWidthCodes ==
  /\ \A a \in allocated : FixedWidth(heap[a].short_code)
  /\ last.op = "gen" => FixedWidth(last.out)

\* C10 witness: shorten returned a code that is not all zeros and is live.
C10_Witness ==
  /\ last.op = "gen"
  /\ last.out \in LiveCodes
  /\ \E i \in 1..Len(last.out) : last.out[i] # 48

\* C11: a code issued before (its record live or deleted) is issued again
\* only from a global_id that is congruent modulo MODULUS to the one it was
\* made from, at least MODULUS later; and while global_id <= MODULUS (fewer
\* than MODULUS candidates evaluated since start) every iteration of the loop
\* issues a code never issued before, without a retry.
C11_SameResidue ==
  \A i \in issued.since :
    \A j \in IssuedFrom(i.code) : ModMODULUS(i.id) = ModMODULUS(j)

C11_NoEarlyReuse ==
  /\ []C11_SameResidue
  /\ [][ (pc = "gen" /\ pc' = "idle")
         => \A j \in IssuedFrom(last'.out) :
              /\ ModMODULUS(global_id) = ModMODULUS(j)
              /\ Ge64(global_id, Plus64(j, MODULUS)) ]_vars
  /\ [][ (pc = "gen" /\ Ge64(MODULUS, global_id))
         => ( /\ tries = 0
              /\ tries' = 0
              /\ (pc' = "idle" => IssuedFrom(last'.out) = {}) ) ]_vars

\* C11 witness: a code was issued a second time, MODULUS candidates after its
\* first issue.
C11_Witness ==
  /\ last.op = "gen"
  /\ \E i \in issued.since :
       /\ i.code = last.out
       /\ \E j \in IssuedFrom(i.code) : i.id = Plus64(j, MODULUS)

\* The live records as (short_code, long_url) pairs.
LiveRecords == { << heap[a].short_code, heap[a].long_url >> : a \in allocated }

\* The record a printed line "<short_code> -> <long_url>" stands for.
ParseLine(line) ==
  << SubSeq(line, 1, SHORT_CODE_LEN),
     SubSeq(line, SHORT_CODE_LEN + 5, Len(line)) >>

\* lines holds every live record exactly once, and nothing else.
ExactlyLive(lines) ==
  /\ Len(lines) = LiveCount
  /\ { ParseLine(lines[i]) : i \in 1..Len(lines) } = LiveRecords
  /\ \A i, j \in 1..Len(lines) : ParseLine(lines[i]) = ParseLine(lines[j]) => i = j

\* C12: while no allocation has failed, print_all_mappings prints exactly
\* the live (short_code, long_url) records, each once; what the last list
\* command printed is that; and after a successful delete of a code no
\* printed line carries it.
C12_EnumerateLive ==
  ~AllocationFailed =>
    /\ ExactlyLive(print_all_mappings(Mem))
    /\ last.op = "list" => ExactlyLive(last.out)
    /\ (last.op = "del" /\ last.ret = 1)
         => \A i \in 1..Len(print_all_mappings(Mem)) :
              ParseLine(print_all_mappings(Mem)[i])[1] # last.arg

\* C12 witness: list has printed two records that are chained in one
\* short_table bucket, after another record was deleted.
C12_Witness ==
  /\ last.op = "list"
  /\ Len(last.out) = 2
  /\ ~AllocationFailed
  /\ \E a, b \in allocated :
       /\ a # b
       /\ hash_str(heap[a].short_code) = hash_str(heap[b].short_code)
  /\ \E c \in CodeInputs : IssuedFrom(c) # {} /\ c \notin LiveCodes

\* C13: retrieve_original, for a code that is found and for one that is not
\* and for every size of the caller's buffer in OutSizes, leaves short_table,
\* long_table, every node, the set of live nodes and global_id as they were.
C13_LookupOnly ==
  pc = "idle" =>
    \A c \in CodeInputs, out_size \in OutSizes :
      retrieve_original(Mem, c, out_size).mem = Mem

C13_ResolveIsPure ==
  /\ []C13_LookupOnly
  /\ [][ (pc = "idle" /\ pc' = "idle" /\ last'.op = "get")
         => UNCHANGED << short_table, long_table, heap, allocated, global_id >> ]_vars

\* C13 witness: resolve has found a record in a store of two, and both are
\* still there.
C13_Witness ==
  /\ last.op = "get"
  /\ last.ret = 1
  /\ LiveCount = 2
  /\ last.arg \in LiveCodes

\* p is a proper beginning of the string s.
ProperPrefix(p, s) ==
  /\ Len(p) < Len(s)
  /\ p = SubSeq(s, 1, Len(p))

\* C14: a gen command whose long URL is longer than LONG_URL_MAX - 1
\* characters is answered with the too-long error and nothing else happens:
\* generate_short_url is not called on any part of it, no record holds a part
\* of it, and no part of it is run as a command.  (The only over-long URL
\* typed is TooLongUrl: a record whose long_url is a beginning of it, or a
\* del of the code it ends with, "004YDUq", which no del line typed names, is
\* a part of it processed.)
C14_TooLongRejected ==
  /\ \A a \in allocated : ~ProperPrefix(heap[a].long_url, TooLongUrl)
  /\ last.op = "gen" => ~ProperPrefix(last.arg, TooLongUrl)
  /\ last.op = "del" => last.arg # CandidateOf(U64(2))

\* C15: in every state each of the two numbers count() reports (non-empty
\* short_table buckets, non-empty long_table buckets) is at most HASH_SIZE,
\* and so were the numbers the last count command printed.
C15_CountWithinTable ==
  /\ count(Mem).short_count \in 0..HASH_SIZE
  /\ count(Mem).long_count \in 0..HASH_SIZE
  /\ last.op = "count" => (last.out[1] <= HASH_SIZE /\ last.out[2] <= HASH_SIZE)

\* C15 witness: count has reported two occupied short_table buckets and one
\* occupied long_table bucket (two records whose long URLs share a bucket).
C15_Witness ==
  /\ last.op = "count"
  /\ last.out = << 2, 1 >>
  /\ LiveCount = 2

\* C16: global_id is 1 until a code is issued; every iteration of the loop
\* of generate_short_url that goes on adds exactly 1 to it, so a call that
\* rejected k candidates returns with global_id k + 1 above its value at
\* entry; and no step taken outside the loop (get, del, list, count, exit,
\* and gen up to the loop) changes it.
C16_CountsCandidates ==
  /\ issued = [through |-> U64(0), since |-> {}] => global_id = U64(1)
  /\ pc = "gen" => global_id = Plus64(entry_id, U64(tries))

C16_CounterSteps ==
  /\ []C16_CountsCandidates
  /\ [][ (pc = "gen" /\ pc' # "oom") => global_id' = Plus64(global_id, U64(1)) ]_vars
  /\ [][ (pc = "gen" /\ pc' = "oom") => global_id' = global_id ]_vars
  /\ [][ (pc = "gen" /\ pc' = "gen")
         => (tries' = tries + 1 /\ global_id' = Plus64(global_id, U64(1))) ]_vars
  /\ [][ (pc = "gen" /\ pc' = "idle")
         => ( /\ global_id' = Plus64(entry_id, U64(tries + 1))
              /\ last'.dg = U64(tries + 1) ) ]_vars
  /\ [][ pc = "idle" => global_id' = global_id ]_vars

\* C16 witness: past the modulus, a shorten call rejected one candidate and
\* took the next, two above the counter it started from, and a list or count
\* came after it.
C16_Witness ==
  /\ last.op \in {"list", "count"}
  /\ global_id = Plus64(MODULUS, U64(3))
  /\ \E i \in issued.since : i.id = Plus64(MODULUS, U64(2))
  /\ ~\E i \in issued.since : i.id = Plus64(MODULUS, U64(1))

\* C17: for every s in [0, MODULUS) scramble_id(s) is the mathematical value
\* (s * PRIME_MULTIPLIER) mod MODULUS, also where the product is past the
\* range of the 64-bit word and wraps, and lies in [0, MODULUS); s is got
\* back from it by the multiplication with the inverse of PRIME_MULTIPLIER
\* modulo MODULUS, so scramble_id maps [0, MODULUS) one-to-one onto itself;
\* and the arguments applied have pairwise distinct results.
C17_ScramblePermutes ==
  /\ (last.op = "scramble_id" /\ ~Ge64(last.arg, MODULUS))
       => /\ last.out = TimesMod40(last.arg, U64(PRIME_MULTIPLIER))
          /\ ~Ge64(last.out, MODULUS)
          /\ TimesMod40(last.out, PrimeInverse) = last.arg
  /\ TimesMod40(U64(PRIME_MULTIPLIER), PrimeInverse) = U64(1)
  /\ Cardinality({ scramble_id(s) : s \in { x \in ScrambleInputs : ~Ge64(x, MODULUS) } })
       = Cardinality({ x \in ScrambleInputs : ~Ge64(x, MODULUS) })

\* C17 witness: scramble_id was applied to a value of [0, MODULUS) whose
\* product with PRIME_MULTIPLIER is past the range of the word.
C17_Witness ==
  /\ last.op = "scramble_id"
  /\ ~Ge64(last.arg, MODULUS)
  /\ TimesWide(last.arg, PRIME_MULTIPLIER)[5] > 0
  /\ last.out # U64(0)

\* C18: the code id_to_base62 makes of a value below 2^40 has 7 digits of the
\* alphabet and, read as a base-62 numeral with the most significant digit
\* first, is that value (no high-order digit is lost); a value below 62 is six
\* '0' and its digit; and distinct values have distinct codes.
C18_EncodeRoundTrip ==
  /\ last.op = "id_to_base62"
       => /\ FixedWidth(last.out)
          /\ Decode(last.out) = last.arg
          /\ (last.arg[1] < 62 /\ last.arg[2] = 0 /\ last.arg[3] = 0 /\ last.arg[4] = 0)
               => last.out = << 48, 48, 48, 48, 48, 48, BASE62[last.arg[1] + 1] >>
  /\ Cardinality({ id_to_base62(v) : v \in EncodeInputs }) = Cardinality(EncodeInputs)

\* C18 witness: id_to_base62 was applied to a value past 62^6 (2^40 - 1 is
\* among them) and its code has a first digit other than '0'.
C18_Witness ==
  /\ last.op = "id_to_base62"
  /\ last.arg[3] >= 14
  /\ last.out[1] # 48

\* C19: a step that creates or deletes a record (a shorten of a new URL, a
\* successful delete), no allocation having failed, leaves every other live
\* record with the short_code and long_url it had, found under its code in
\* short_table and under its URL in long_table, wherever in its chains the
\* affected record is or was.
C19_OthersUntouched ==
  [][ (allocated' # allocated /\ ~AllocationFailed')
      => \A a \in allocated \cap allocated' :
           /\ heap'[a].short_code = heap[a].short_code
           /\ heap'[a].long_url = heap[a].long_url
           /\ find_by_short(Mem', heap[a].short_code) = a
           /\ find_by_long(Mem', heap[a].long_url) = a
           /\ a \in ShortIndex'
           /\ a \in LongIndex' ]_vars

\* C19 witness: the record deleted was in the middle of a short_table chain
\* and of a long_table chain of three (it was inserted after the record t and
\* before the record p, into their buckets): p, the head of both chains, now
\* points to t in both.
C19_Witness ==
  /\ last.op = "del"
  /\ last.ret = 1
  /\ LiveCount = 2
  /\ ~AllocationFailed
  /\ \E p, t \in allocated :
       /\ short_table[hash_str(last.arg)] = p
       /\ long_table[hash_str(last.out)] = p
       /\ heap[p].next_short = t
       /\ heap[p].next_long = t
       /\ \E i \in IssuedFrom(last.arg),
             ip \in IssuedFrom(heap[p].short_code),
             it \in IssuedFrom(heap[t].short_code) :
            /\ ~Ge64(i, ip)
            /\ ~Ge64(it, i)

====
